---- MODULE Spec2Model ----
(***************************************************************************)
(* Workspace booking backend: the booking service (createBooking with      *)
(* SERIALIZABLE transactions and retries, cancelBooking), the pricing      *)
(* helper it calls and the PostgreSQL tables it works on.                  *)
(*                                                                         *)
(* Instants are milliseconds since Monday 2024-06-03T00:00:00Z, as the     *)
(* code's Date.getTime() values shifted by a constant.  Prices are in      *)
(* hundredths (NUMERIC(12,2)).                                             *)
(***************************************************************************)
EXTENDS Integers, FiniteSets, Sequences, TLC

\* ------------------------------------------------------------------ bounds
NumCallers == 2
NumIds == 2
NumDays == 8

Callers == 1..NumCallers
Ids == 1..NumIds

\* --------------------------------------------------------- program constants
TX_RETRIES == 3
MS_PER_MIN == 60000
HOUR_MS == 60 * MS_PER_MIN
DAY_MS == 24 * 60 * 60 * 1000
IST_OFFSET_MS == (5 * 60 + 30) * 60 * 1000
MAX_DURATION_MIN == 12 * 60
CANCEL_WINDOW_MS == 2 * 60 * 60 * 1000
BACKOFF_BASE_MS == 50

\* Math.round(x / d) for d > 0: JavaScript rounds a half towards +Infinity.
JsRoundDiv(x, d) == (2 * x + d) \div (2 * d)

Max(a, b) == IF a >= b THEN a ELSE b
Min(a, b) == IF a <= b THEN a ELSE b

\* ------------------------------------------------------------ utils/time.ts
\* getUTCDay() of (date + IST offset): 0 Sun .. 6 Sat; instant 0 is a Monday.
IstDay(t) == (((t + IST_OFFSET_MS) \div DAY_MS) + 1) % 7

isWeekdayIst(t) == IstDay(t) >= 1 /\ IstDay(t) <= 5

\* Date.UTC(y, m, d, h, min) of the IST calendar day of `instant`, back in UTC.
istToUtcDate(instant, h, min) ==
    LET istMillis == instant + IST_OFFSET_MS
        istMidnight == istMillis - (istMillis % DAY_MS)
    IN  istMidnight + h * HOUR_MS + min * MS_PER_MIN - IST_OFFSET_MS

peakWindowsForIstDayFromInstant(instant) ==
    << [start |-> istToUtcDate(instant, 10, 0), end |-> istToUtcDate(instant, 13, 0)],
       [start |-> istToUtcDate(instant, 16, 0), end |-> istToUtcDate(instant, 19, 0)] >>

overlapMinutes(a, b, c, d) ==
    Max(0, JsRoundDiv(Min(b, d) - Max(a, c), MS_PER_MIN))

\* The while loop of estimatePriceForInterval: one UTC day per iteration.
RECURSIVE PeakLoop(_, _, _)
PeakLoop(cursor, startUtc, endUtc) ==
    IF ~(cursor < endUtc) THEN 0
    ELSE LET w == peakWindowsForIstDayFromInstant(cursor)
             here == IF isWeekdayIst(cursor)
                     THEN overlapMinutes(startUtc, endUtc, w[1].start, w[1].end)
                          + overlapMinutes(startUtc, endUtc, w[2].start, w[2].end)
                     ELSE 0
         IN  here + PeakLoop(cursor + DAY_MS, startUtc, endUtc)

\* The cursor starting at the interval's start instead of the day's midnight.
UtcMidnight_None(t) == t

\* Date.UTC(year, month, date, 0, 0, 0) of startUtc.
UtcMidnight(t) == t - (t % DAY_MS)

PeakMinutes(startUtc, endUtc) == PeakLoop(UtcMidnight(startUtc), startUtc, endUtc)

TotalMinutes(startUtc, endUtc) == Max(0, JsRoundDiv(endUtc - startUtc, MS_PER_MIN))

\* The total without the peak multiplier.
PriceTotal_FlatRate(rate, peak, off) ==
    JsRoundDiv(peak * rate * 10 + off * rate * 10, 6)

\* Number(x.toFixed(2)) of (peak/60)*rate*1.5 + (off/60)*rate, in hundredths.
\* An exact half is rounded up here; toFixed rounds the binary double, which
\* for a few such sums lies just below the half.
PriceTotal(rate, peak, off) ==
    JsRoundDiv(peak * rate * 15 + off * rate * 10, 6)

\* Number(peakAmount.toFixed(2)) and Number(offAmount.toFixed(2)), in hundredths.
PeakAmount(rate, peak) == JsRoundDiv(peak * rate * 15, 6)
OffAmount(rate, off) == JsRoundDiv(off * rate * 10, 6)

\* The breakdown with both entries pushed whatever their minutes.
Breakdown_Always(rate, peak, off) ==
    << [label |-> "Peak hours", minutes |-> peak, amount |-> PeakAmount(rate, peak)],
       [label |-> "Off-peak hours", minutes |-> off, amount |-> OffAmount(rate, off)] >>

\* if (peakMinutes > 0) breakdown.push(...); if (offpeakMinutes > 0) breakdown.push(...)
Breakdown(rate, peak, off) ==
    (IF peak > 0
     THEN << [label |-> "Peak hours", minutes |-> peak,
              amount |-> PeakAmount(rate, peak)] >>
     ELSE << >>)
    \o
    (IF off > 0
     THEN << [label |-> "Off-peak hours", minutes |-> off,
              amount |-> OffAmount(rate, off)] >>
     ELSE << >>)

\* An early return that reports an off-peak entry of no minutes.
EmptyEstimate_ZeroEntry ==
    [total |-> 0,
     breakdown |-> << [label |-> "Off-peak hours", minutes |-> 0, amount |-> 0] >>]

\* return { total: 0, breakdown: [] }
EmptyEstimate == [total |-> 0, breakdown |-> << >>]

estimatePriceForInterval(baseHourlyRate, startUtc, endUtc) ==
    IF ~(startUtc < endUtc)
    THEN EmptyEstimate
    ELSE LET totalMinutes == TotalMinutes(startUtc, endUtc)
             peakMinutes == PeakMinutes(startUtc, endUtc)
             offpeakMinutes == totalMinutes - peakMinutes
         IN  [total |-> PriceTotal(baseHourlyRate, peakMinutes, offpeakMinutes),
              breakdown |-> Breakdown(baseHourlyRate, peakMinutes, offpeakMinutes),
              totalMinutes |-> totalMinutes]

\* ------------------------------------------------------------------ inputs
\* seed.sql: rows of the rooms table (base_hourly_rate in whole units).
SeedRooms == [r \in {"101", "102"} |-> IF r = "101" THEN 350 ELSE 275]

\* An absent startTimeIso / endTimeIso.
NoTime == 0 - 1

\* Monday 04:00Z (09:30 IST): half an hour before the first peak window.
T0 == 4 * HOUR_MS
T1 == T0 + HOUR_MS
T12 == T0 + 12 * HOUR_MS

\* Requests of the concurrent callers: "999" is a room id that is not in the
\* rooms table; the intervals touch, overlap, or are empty.
RoomInputs == {"101", "999"}
UserInputs == {"alice"}
StartInputs == {T0, T1}
EndInputs == {T1, T12}

\* Requests of the sequential caller: "" is an absent field; durations of
\* 60 min, 11 h, 12 h, 12 h 20 s, 12 h 30 s; an inverted interval.
SeqRoomInputs == {"", "101", "102", "999"}
SeqUserInputs == {"", "alice"}
SeqIntervals == { <<T0, T1>>, <<T1, T12>>, <<T0, T12>>, <<T0, T12 + 20000>>,
                  <<T0, T12 + 30000>>, <<T1, T0>>, <<NoTime, T1>>, <<T0, NoTime>> }

\* Arguments of estimatePriceForInterval: NumDays days from Monday 2024-06-03
\* on (a weekend among them); in each day the UTC midnight, the edges of both
\* peak windows (04:30Z, 07:30Z, 10:30Z, 13:30Z) and minutes next to them,
\* the local midnight (18:30Z), the last minute, and the instants half a
\* minute after the start of each window.
DayMarks == {0, 269, 270, 450, 451, 630, 810, 1110, 1439}
HalfMarks == {270, 630}
PricePoints ==
    {d * DAY_MS + m * MS_PER_MIN : d \in 0 .. NumDays - 1, m \in DayMarks}
    \cup {d * DAY_MS + m * MS_PER_MIN + 30000 : d \in 0 .. NumDays - 1, m \in HalfMarks}
PriceRates == {350, 275}

\* The instants new Date() returns over a run, in increasing order.
NowInputs == {T0 - CANCEL_WINDOW_MS - 1000, T0 - CANCEL_WINDOW_MS, T0 + HOUR_MS}

\* ------------------------------------------------------------------- state
VARIABLES
    rooms,      \* rooms table: id -> base_hourly_rate
    bookings,   \* bookings table (committed rows): id -> row
    now,        \* the wall clock, new Date()
    pc,         \* each caller's position in createBooking / cancelBooking
    loc,        \* each caller's parameters and local variables
    tx,         \* each caller's open database transaction
    conn,       \* each caller's pooled client of the current attempt
    result,     \* what each caller's call returned or threw
    hist,       \* per call: what the call has done so far
    quote       \* the last call of estimatePriceForInterval and what it returned

vars == << rooms, bookings, now, pc, loc, tx, conn, result, hist, quote >>

LocInit ==
    [roomId |-> "", userName |-> "", startTimeIso |-> NoTime, endTimeIso |-> NoTime,
     durationMinutes |-> 0, total |-> 0, attempt |-> 0, backoffMs |-> 0,
     cancelId |-> 0, rowStatus |-> "", rowStart |-> NoTime]

EmptyTable == [i \in {} |-> 0]

TxInit == [open |-> FALSE, snap |-> {}]

ConnInit == [held |-> FALSE, releases |-> 0]

NoResult == [kind |-> "None", bookingId |-> 0, roomId |-> "", userName |-> "",
             totalPrice |-> 0, status |-> "", startTime |-> NoTime, endTime |-> NoTime]

\* No call of estimatePriceForInterval observed yet.
NoQuote == [called |-> FALSE, rate |-> 0, start |-> NoTime, end |-> NoTime,
            out |-> EmptyEstimate, at |-> NoTime, rows |-> 0]

HistInit == [op |-> "none", acquired |-> 0, txOpened |-> 0, transient |-> 0,
             inserted |-> 0, updated |-> 0, conflictSeen |-> FALSE]

Init ==
    /\ rooms = SeedRooms
    /\ bookings = EmptyTable
    /\ now = T0 - CANCEL_WINDOW_MS - 1000
    /\ pc = [p \in Callers |-> "idle"]
    /\ loc = [p \in Callers |-> LocInit]
    /\ tx = [p \in Callers |-> TxInit]
    /\ conn = [p \in Callers |-> ConnInit]
    /\ result = [p \in Callers |-> NoResult]
    /\ hist = [p \in Callers |-> HistInit]
    /\ quote = NoQuote

ErrorResult(kind) == [NoResult EXCEPT !.kind = kind]

\* A call ends: the value or error goes to the caller and the locals are gone.
Finish(p, res) ==
    /\ pc' = [pc EXCEPT ![p] = "done"]
    /\ loc' = [loc EXCEPT ![p] = LocInit]
    /\ result' = [result EXCEPT ![p] = res]

\* ------------------------------------------------- the pooled client (pg)
\* client.release(): the client goes back to the pool.
release(c) == [held |-> FALSE, releases |-> c.releases + 1]

\* pg's pool throws "Release called on client which has already been released
\* to the pool." when release() is called on a client a second time.
DoubleRelease(c) == c.releases >= 1

\* ---------------------------------------------------------- createBooking
MissingField(roomId, userName, startTimeIso, endTimeIso) ==
    roomId = "" \/ userName = "" \/ startTimeIso = NoTime \/ endTimeIso = NoTime

DurationMinutes(start, end) == JsRoundDiv(end - start, MS_PER_MIN)

ExceedsMaxDuration(durationMinutes) == durationMinutes > MAX_DURATION_MIN

\* The conflict query with closed intervals: touching bookings would conflict.
ConflictMatch_Closed(row, roomId, startTimeIso, endTimeIso) ==
    /\ row.roomId = roomId
    /\ row.status = "CONFIRMED"
    /\ startTimeIso <= row.end
    /\ endTimeIso >= row.start

\* The conflict query without its status = 'CONFIRMED' condition.
ConflictMatch_AnyStatus(row, roomId, startTimeIso, endTimeIso) ==
    /\ row.roomId = roomId
    /\ startTimeIso < row.end
    /\ endTimeIso > row.start

\* The WHERE clause of the conflict query, params $1 = roomId, $2 = start, $3 = end.
ConflictMatch(row, roomId, startTimeIso, endTimeIso) ==
    /\ row.roomId = roomId
    /\ row.status = "CONFIRMED"
    /\ startTimeIso < row.end
    /\ endTimeIso > row.start

\* The INSERT with the duration and price parameters swapped.
InsertRow_Swapped(l) ==
    [roomId |-> l.roomId, userName |-> l.userName,
     start |-> l.startTimeIso, end |-> l.endTimeIso,
     durationMinutes |-> l.total, totalPrice |-> l.durationMinutes,
     status |-> "CONFIRMED"]

\* The row of the INSERT statement.
InsertRow(l) ==
    [roomId |-> l.roomId, userName |-> l.userName,
     start |-> l.startTimeIso, end |-> l.endTimeIso,
     durationMinutes |-> l.durationMinutes, totalPrice |-> l.total,
     status |-> "CONFIRMED"]

\* The object createBooking returns, built from the RETURNING row.
BookingResult(id, br) ==
    [kind |-> "Booking", bookingId |-> id, roomId |-> br.roomId,
     userName |-> br.userName, totalPrice |-> br.totalPrice, status |-> br.status,
     startTime |-> br.start, endTime |-> br.end]

\* throw { status: 409, message: `Room already booked from ${s} to ${e}` }
ConflictError(row) ==
    [ErrorResult("ConflictError") EXCEPT !.startTime = row.start, !.endTime = row.end]

\* The retry bound off by one.
AttemptAllowed_OffByOne(n) == n <= TX_RETRIES + 1

\* for (attempt = 1; attempt <= TX_RETRIES; attempt++): may attempt number n run.
AttemptAllowed(n) == n <= TX_RETRIES

\* A catch block that retries after any error.
ShouldRetry_AnyError(err, attempt) == attempt + 1 <= TX_RETRIES

\* if (pgcode === "40001" && attempt < TX_RETRIES): another attempt follows.
ShouldRetry(err, attempt) ==
    err.kind = "SerializationFailure" /\ AttemptAllowed(attempt + 1)

\* A table without the key constraint: an INSERT never collides.
KeyExists_NoPrimaryKey(table, id) == FALSE

\* bookings.id is the PRIMARY KEY: an INSERT of an existing id is rejected.
KeyExists(table, id) == id \in DOMAIN table

\* bookings.room_id REFERENCES rooms(id): the referenced room has to exist.
RoomExists(table, roomId) == roomId \in DOMAIN table

\* A transaction at an isolation level that detects no rw-dependency.
MustAbort_ReadCommitted(t, l) == FALSE

\* SERIALIZABLE: a transaction whose conflict query missed a row that another
\* transaction committed since its snapshot cannot commit (rw-dependency
\* cycle between the two check-then-insert transactions): SQLSTATE 40001.
MustAbort(t, l) ==
    \E id \in DOMAIN bookings \ t.snap :
        ConflictMatch([bookings[id] EXCEPT !.status = "CONFIRMED"],
                      l.roomId, l.startTimeIso, l.endTimeIso)

\* Validation, the room lookup and the pricing, up to the retry loop.
CreateCall(p, roomId, userName, startTimeIso, endTimeIso) ==
    /\ pc[p] = "idle"
    /\ hist' = [hist EXCEPT ![p] = [HistInit EXCEPT !.op = "create"]]
    /\ IF MissingField(roomId, userName, startTimeIso, endTimeIso)
       THEN Finish(p, ErrorResult("ValidationError"))
       ELSE IF ~(startTimeIso < endTimeIso)
       THEN Finish(p, ErrorResult("ValidationError"))
       ELSE IF ExceedsMaxDuration(DurationMinutes(startTimeIso, endTimeIso))
       THEN Finish(p, ErrorResult("ValidationError"))
       ELSE IF roomId \notin DOMAIN rooms
       THEN Finish(p, ErrorResult("NotFound"))
       ELSE /\ pc' = [pc EXCEPT ![p] = "connect"]
            /\ loc' = [loc EXCEPT ![p] =
                  [LocInit EXCEPT
                     !.roomId = roomId, !.userName = userName,
                     !.startTimeIso = startTimeIso, !.endTimeIso = endTimeIso,
                     !.durationMinutes = DurationMinutes(startTimeIso, endTimeIso),
                     !.total = estimatePriceForInterval(rooms[roomId],
                                   startTimeIso, endTimeIso).total,
                     !.attempt = 1]]
            /\ UNCHANGED result
    /\ UNCHANGED << quote, rooms, bookings, now, tx, conn >>

\* const client = await pool.connect(); let committedOrRolledBack = false;
\* BEGIN TRANSACTION ISOLATION LEVEL SERIALIZABLE
Connect(p) ==
    /\ pc[p] = "connect"
    /\ conn' = [conn EXCEPT ![p] = [held |-> TRUE, releases |-> 0]]
    /\ tx' = [tx EXCEPT ![p] = [open |-> TRUE, snap |-> {}]]
    /\ hist' = [hist EXCEPT ![p].acquired = @ + 1, ![p].txOpened = @ + 1]
    /\ pc' = [pc EXCEPT ![p] = "conflictQ"]
    /\ UNCHANGED << quote, rooms, bookings, now, loc, result >>

\* A catch block that keeps the client over the backoff sleep.
Catch_KeepClient(p, err, c) ==
    /\ tx' = [tx EXCEPT ![p] = TxInit]
    /\ IF err.kind = "SerializationFailure" /\ loc[p].attempt + 1 <= TX_RETRIES
       THEN /\ conn' = [conn EXCEPT ![p] = c]
            /\ loc' = [loc EXCEPT ![p].backoffMs = BACKOFF_BASE_MS * loc[p].attempt]
            /\ pc' = [pc EXCEPT ![p] = "backoff"]
            /\ UNCHANGED result
       ELSE /\ conn' = [conn EXCEPT ![p] = [held |-> FALSE, releases |-> c.releases + 1]]
            /\ IF c.releases >= 1
               THEN Finish(p, [NoResult EXCEPT !.kind = "ReleaseError"])
               ELSE Finish(p, err)

\* catch (err): ROLLBACK unless committedOrRolledBack, then either release,
\* back off and retry, or release and rethrow.  c is the client as the try
\* block left it.
Catch(p, err, c) ==
    /\ tx' = [tx EXCEPT ![p] = TxInit]
    /\ conn' = [conn EXCEPT ![p] = release(c)]
    /\ IF ShouldRetry(err, loc[p].attempt)
       THEN /\ loc' = [loc EXCEPT ![p].backoffMs = BACKOFF_BASE_MS * loc[p].attempt]
            /\ pc' = [pc EXCEPT ![p] = "backoff"]
            /\ UNCHANGED result
       ELSE IF DoubleRelease(c)
       THEN Finish(p, ErrorResult("ReleaseError"))
       ELSE Finish(p, err)

\* A statement fails with SQLSTATE 40001: control goes to the catch block.
Transient(p) ==
    /\ hist' = [hist EXCEPT ![p].transient = @ + 1]
    /\ Catch(p, ErrorResult("SerializationFailure"), conn[p])
    /\ UNCHANGED bookings

\* The conflict query; the transaction's snapshot is taken here.  LIMIT 1
\* without ORDER BY returns any one of the matching rows.  On a match:
\* ROLLBACK, committedOrRolledBack = true, client.release(), throw 409 - which
\* the catch block of the same try statement catches.
ConflictQuery(p) ==
    /\ pc[p] = "conflictQ"
    /\ \/ Transient(p)
       \/ LET matches == {id \in DOMAIN bookings :
                             ConflictMatch(bookings[id], loc[p].roomId,
                                           loc[p].startTimeIso, loc[p].endTimeIso)}
          IN  IF matches # {}
              THEN /\ \E id \in matches :
                        Catch(p, ConflictError(bookings[id]), release(conn[p]))
                   /\ hist' = [hist EXCEPT ![p].conflictSeen = TRUE]
                   /\ UNCHANGED bookings
              ELSE /\ tx' = [tx EXCEPT ![p].snap = DOMAIN bookings]
                   /\ pc' = [pc EXCEPT ![p] = "insert"]
                   /\ UNCHANGED << bookings, loc, conn, result, hist >>
    /\ UNCHANGED << quote, rooms, now >>

\* The INSERT with the generated bookingId, COMMIT, committedOrRolledBack =
\* true, client.release(), return.
Insert(p, bookingId) ==
    /\ pc[p] = "insert"
    /\ \/ Transient(p)
       \/ /\ KeyExists(bookings, bookingId)
          /\ Catch(p, ErrorResult("UniqueViolation"), conn[p])
          /\ UNCHANGED << bookings, hist >>
       \/ /\ ~KeyExists(bookings, bookingId)
          /\ ~RoomExists(rooms, loc[p].roomId)
          /\ Catch(p, ErrorResult("ForeignKeyViolation"), conn[p])
          /\ UNCHANGED << bookings, hist >>
       \/ /\ ~KeyExists(bookings, bookingId)
          /\ RoomExists(rooms, loc[p].roomId)
          /\ ~MustAbort(tx[p], loc[p])
          /\ bookings' = (bookingId :> InsertRow(loc[p])) @@ bookings
          /\ tx' = [tx EXCEPT ![p] = TxInit]
          /\ conn' = [conn EXCEPT ![p] = release(conn[p])]
          /\ hist' = [hist EXCEPT ![p].inserted = @ + 1]
          /\ Finish(p, BookingResult(bookingId, InsertRow(loc[p])))
    /\ UNCHANGED << quote, rooms, now >>

\* The backoff sleep ends: attempt++ and the loop condition; after the loop,
\* throw "Could not create booking due to concurrent load".
Backoff(p) ==
    /\ pc[p] = "backoff"
    /\ IF AttemptAllowed(loc[p].attempt + 1)
       THEN /\ loc' = [loc EXCEPT ![p].attempt = @ + 1, ![p].backoffMs = 0]
            /\ pc' = [pc EXCEPT ![p] = "connect"]
            /\ UNCHANGED result
       ELSE Finish(p, ErrorResult("OverloadError"))
    /\ UNCHANGED << quote, rooms, bookings, now, tx, conn, hist >>

\* ---------------------------------------------------------- cancelBooking
\* SELECT id, start_time, status FROM bookings WHERE id = $1
CancelSelect(p, id) ==
    /\ pc[p] = "idle"
    /\ hist' = [hist EXCEPT ![p] = [HistInit EXCEPT !.op = "cancel"]]
    /\ IF id \notin DOMAIN bookings
       THEN Finish(p, ErrorResult("NotFound"))
       ELSE /\ loc' = [loc EXCEPT ![p] =
                  [LocInit EXCEPT !.cancelId = id,
                                  !.rowStatus = bookings[id].status,
                                  !.rowStart = bookings[id].start]]
            /\ pc' = [pc EXCEPT ![p] = "cancelCheck"]
            /\ UNCHANGED result
    /\ UNCHANGED << quote, rooms, bookings, now, tx, conn >>

CancelledResult(id) ==
    [NoResult EXCEPT !.kind = "Cancelled", !.bookingId = id, !.status = "CANCELLED"]

\* The cutoff with a strict comparison: exactly 2 hours would be allowed.
InsideCancelWindow_Strict(start, t) == start - t < CANCEL_WINDOW_MS

\* if (diffMs <= 2 * 60 * 60 * 1000) throw ...
InsideCancelWindow(start, t) == start - t <= CANCEL_WINDOW_MS

\* The cutoff check before the status check.
CancelCheck_WindowFirst(p) ==
    /\ pc[p] = "cancelCheck"
    /\ IF InsideCancelWindow(loc[p].rowStart, now)
       THEN Finish(p, ErrorResult("CancellationWindowError"))
       ELSE IF loc[p].rowStatus = "CANCELLED"
       THEN Finish(p, CancelledResult(loc[p].cancelId))
       ELSE /\ pc' = [pc EXCEPT ![p] = "cancelUpdate"]
            /\ UNCHANGED << loc, result >>
    /\ UNCHANGED << quote, rooms, bookings, now, tx, conn, hist >>

\* The status check, then the cutoff check against new Date().
CancelCheck(p) ==
    /\ pc[p] = "cancelCheck"
    /\ IF loc[p].rowStatus = "CANCELLED"
       THEN Finish(p, CancelledResult(loc[p].cancelId))
       ELSE IF InsideCancelWindow(loc[p].rowStart, now)
       THEN Finish(p, ErrorResult("CancellationWindowError"))
       ELSE /\ pc' = [pc EXCEPT ![p] = "cancelUpdate"]
            /\ UNCHANGED << loc, result >>
    /\ UNCHANGED << quote, rooms, bookings, now, tx, conn, hist >>

\* The UPDATE restricted to rows that are still CONFIRMED: on a row that
\* another call has cancelled in the meantime it returns no row.
CancelUpdate_Guarded(p) ==
    /\ pc[p] = "cancelUpdate"
    /\ IF /\ loc[p].cancelId \in DOMAIN bookings
          /\ bookings[loc[p].cancelId].status = "CONFIRMED"
       THEN /\ bookings' = [bookings EXCEPT ![loc[p].cancelId].status = "CANCELLED"]
            /\ hist' = [hist EXCEPT ![p].updated = @ + 1]
            /\ Finish(p, CancelledResult(loc[p].cancelId))
       ELSE /\ UNCHANGED << bookings, hist >>
            /\ Finish(p, ErrorResult("Undefined"))
    /\ UNCHANGED << quote, rooms, now, tx, conn >>

\* UPDATE bookings SET status='CANCELLED' WHERE id = $1 RETURNING ...
CancelUpdate(p) ==
    /\ pc[p] = "cancelUpdate"
    /\ IF loc[p].cancelId \in DOMAIN bookings
       THEN /\ bookings' = [bookings EXCEPT ![loc[p].cancelId].status = "CANCELLED"]
            /\ hist' = [hist EXCEPT ![p].updated = @ + 1]
            /\ Finish(p, CancelledResult(loc[p].cancelId))
       ELSE /\ UNCHANGED << bookings, hist >>
            /\ Finish(p, ErrorResult("Undefined"))
    /\ UNCHANGED << quote, rooms, now, tx, conn >>

\* ---------------------------------------------------------- roomService.ts
\* An absent base_hourly_rate in the payload of updateRoom.
NoRate == 0 - 1

\* INSERT INTO rooms ... ON CONFLICT (id) DO UPDATE SET base_hourly_rate = ...
createRoom(id, rate) ==
    /\ rooms' = (id :> rate) @@ rooms
    /\ UNCHANGED << quote, bookings, now, pc, loc, tx, conn, result, hist >>

\* An update of the room that also reprices the bookings of the room.
updateRoom_Reprice(id, rate) ==
    /\ rooms' = IF id \in DOMAIN rooms /\ rate # NoRate
                THEN [rooms EXCEPT ![id] = rate]
                ELSE rooms
    /\ bookings' = [b \in DOMAIN bookings |->
                      IF bookings[b].roomId = id /\ id \in DOMAIN rooms
                      THEN [bookings[b] EXCEPT !.totalPrice =
                               estimatePriceForInterval(rooms'[id], bookings[b].start,
                                                        bookings[b].end).total]
                      ELSE bookings[b]]
    /\ UNCHANGED << quote, now, pc, loc, tx, conn, result, hist >>

\* UPDATE rooms SET base_hourly_rate = COALESCE($3, base_hourly_rate) WHERE id = $1
updateRoom(id, rate) ==
    /\ rooms' = IF id \in DOMAIN rooms /\ rate # NoRate
                THEN [rooms EXCEPT ![id] = rate]
                ELSE rooms
    /\ UNCHANGED << quote, bookings, now, pc, loc, tx, conn, result, hist >>

\* bookings.room_id ... ON DELETE CASCADE: the rows that go with a room.
CascadeDelete(table, roomId) ==
    [b \in {i \in DOMAIN table : table[i].roomId # roomId} |-> table[b]]

\* DELETE FROM rooms WHERE id = $1
deleteRoom(id) ==
    /\ rooms' = [r \in DOMAIN rooms \ {id} |-> rooms[r]]
    /\ bookings' = IF id \in DOMAIN rooms THEN CascadeDelete(bookings, id) ELSE bookings
    /\ UNCHANGED << quote, now, pc, loc, tx, conn, result, hist >>

\* ------------------------------------------------------------ the callers
\* The controller has sent the response: the caller may issue its next call.
Return(p) ==
    /\ pc[p] = "done"
    /\ pc' = [pc EXCEPT ![p] = "idle"]
    /\ result' = [result EXCEPT ![p] = NoResult]
    /\ hist' = [hist EXCEPT ![p] = HistInit]
    /\ conn' = [conn EXCEPT ![p] = ConnInit]
    /\ UNCHANGED << quote, rooms, bookings, now, loc, tx >>

\* new Date() moves on.
Tick ==
    /\ \E t \in NowInputs : t > now /\ now' = t
    /\ UNCHANGED << quote, rooms, bookings, pc, loc, tx, conn, result, hist >>

\* Concurrent callers, before the cancellation cutoff of every booking.
Next ==
    \/ \E p \in Callers, roomId \in RoomInputs, userName \in UserInputs,
          s \in StartInputs, e \in EndInputs :
            CreateCall(p, roomId, userName, s, e)
    \/ \E p \in Callers : Connect(p)
    \/ \E p \in Callers : ConflictQuery(p)
    \/ \E p \in Callers, id \in Ids : Insert(p, id)
    \/ \E p \in Callers : Backoff(p)
    \/ \E p \in Callers, id \in Ids : CancelSelect(p, id)
    \/ \E p \in Callers : CancelCheck(p)
    \/ \E p \in Callers : CancelUpdate(p)
    \/ \E p \in Callers : Return(p)

Spec == Init /\ [][Next]_vars

\* One caller issuing one call after another, with every kind of request and
\* a moving clock.
NextSeq ==
    \/ \E roomId \in SeqRoomInputs, userName \in SeqUserInputs, iv \in SeqIntervals :
            CreateCall(1, roomId, userName, iv[1], iv[2])
    \/ Connect(1)
    \/ ConflictQuery(1)
    \/ \E id \in Ids : Insert(1, id)
    \/ Backoff(1)
    \/ \E id \in Ids : CancelSelect(1, id)
    \/ CancelCheck(1)
    \/ CancelUpdate(1)
    \/ Return(1)
    \/ Tick

SpecSeq == Init /\ [][NextSeq]_vars

\* The event loop runs every continuation that is ready, and the database
\* answers every statement: a call that has started keeps taking steps.
CreateStep(p) ==
    Connect(p) \/ ConflictQuery(p) \/ (\E id \in Ids : Insert(p, id)) \/ Backoff(p)

\* One caller issuing the requests of the concurrent callers, one call after
\* another, each call taking its steps until it ends.
NextOne ==
    \/ \E roomId \in RoomInputs, userName \in UserInputs,
          s \in StartInputs, e \in EndInputs :
            CreateCall(1, roomId, userName, s, e)
    \/ Connect(1)
    \/ ConflictQuery(1)
    \/ \E id \in Ids : Insert(1, id)
    \/ Backoff(1)
    \/ \E id \in Ids : CancelSelect(1, id)
    \/ CancelCheck(1)
    \/ CancelUpdate(1)
    \/ Return(1)

FairSeq == Init /\ [][NextOne]_vars /\ WF_vars(CreateStep(1))

\* The pricing function about to be called with any of the arguments.
InitPrice ==
    /\ rooms = SeedRooms
    /\ bookings = EmptyTable
    /\ now = T0 - CANCEL_WINDOW_MS - 1000
    /\ pc = [p \in Callers |-> "idle"]
    /\ loc = [p \in Callers |-> LocInit]
    /\ tx = [p \in Callers |-> TxInit]
    /\ conn = [p \in Callers |-> ConnInit]
    /\ result = [p \in Callers |-> NoResult]
    /\ hist = [p \in Callers |-> HistInit]
    /\ \E rate \in PriceRates, startUtc \in PricePoints, endUtc \in PricePoints :
          quote = [NoQuote EXCEPT !.rate = rate, !.start = startUtc, !.end = endUtc]

\* The call returns.
PriceCall ==
    /\ ~quote.called
    /\ quote' = [quote EXCEPT !.called = TRUE,
                              !.out = estimatePriceForInterval(quote.rate, quote.start,
                                                               quote.end),
                              !.at = now,
                              !.rows = Cardinality(DOMAIN bookings)]
    /\ UNCHANGED << rooms, bookings, now, pc, loc, tx, conn, result, hist >>

NextPrice == PriceCall

SpecPrice == InitPrice /\ [][NextPrice]_vars

\* Arguments of the repeated pricing calls: an hour before and into the
\* first peak window, eleven hours, a Saturday, an inverted interval.
DetRates == {350}
DetIntervals == { <<T0, T1>>, <<T1, T12>>,
                  <<5 * DAY_MS + T0, 5 * DAY_MS + T1>>, <<T1, T0>> }

\* A pricing call whose total has a surcharge for every booking in the table.
PriceCallWith_Surge(rate, startUtc, endUtc) ==
    /\ quote' = [called |-> TRUE, rate |-> rate, start |-> startUtc, end |-> endUtc,
                 out |-> [estimatePriceForInterval(rate, startUtc, endUtc) EXCEPT
                             !.total = @ + 100 * Cardinality(DOMAIN bookings)],
                 at |-> now, rows |-> Cardinality(DOMAIN bookings)]
    /\ UNCHANGED << rooms, bookings, now, pc, loc, tx, conn, result, hist >>

\* estimatePriceForInterval called again, at whatever the clock and the
\* table are by now; `at` and `rows` note the clock and the table's size.
PriceCallWith(rate, startUtc, endUtc) ==
    /\ quote' = [called |-> TRUE, rate |-> rate, start |-> startUtc, end |-> endUtc,
                 out |-> estimatePriceForInterval(rate, startUtc, endUtc),
                 at |-> now, rows |-> Cardinality(DOMAIN bookings)]
    /\ UNCHANGED << rooms, bookings, now, pc, loc, tx, conn, result, hist >>

\* One booking caller, a moving clock, and pricing calls in between.
NextDet ==
    \/ \E roomId \in RoomInputs, userName \in UserInputs,
          s \in StartInputs, e \in EndInputs :
            CreateCall(1, roomId, userName, s, e)
    \/ Connect(1)
    \/ ConflictQuery(1)
    \/ \E id \in Ids : Insert(1, id)
    \/ Backoff(1)
    \/ \E id \in Ids : CancelSelect(1, id)
    \/ CancelCheck(1)
    \/ CancelUpdate(1)
    \/ Return(1)
    \/ Tick
    \/ \E rate \in DetRates, iv \in DetIntervals : PriceCallWith(rate, iv[1], iv[2])

SpecDet == Init /\ [][NextDet]_vars

\* The room endpoints' inputs: the booked room, a changed rate, no rate.
AdminRoomInputs == {"101"}
AdminRateInputs == {350, 500}
AdminPatchInputs == {NoRate, 500}

\* One booking caller and the room endpoints, each room request one statement.
NextAdmin ==
    \/ \E roomId \in RoomInputs, userName \in UserInputs,
          s \in StartInputs, e \in EndInputs :
            CreateCall(1, roomId, userName, s, e)
    \/ Connect(1)
    \/ ConflictQuery(1)
    \/ \E id \in Ids : Insert(1, id)
    \/ Backoff(1)
    \/ \E id \in Ids : CancelSelect(1, id)
    \/ CancelCheck(1)
    \/ CancelUpdate(1)
    \/ Return(1)
    \/ \E id \in AdminRoomInputs, rate \in AdminRateInputs : createRoom(id, rate)
    \/ \E id \in AdminRoomInputs, rate \in AdminPatchInputs : updateRoom(id, rate)
    \/ \E id \in AdminRoomInputs : deleteRoom(id)

SpecAdmin == Init /\ [][NextAdmin]_vars

\* The same, with a createBooking call that has started taking its steps.
FairAdmin == Init /\ [][NextAdmin]_vars /\ WF_vars(CreateStep(1))

\* ------------------------------------------------------------------ claims
\* Two half-open intervals [s1,e1) and [s2,e2) have an instant in common.
SharesInstant(s1, e1, s2, e2) ==
    \E t \in {s1, s2} : s1 <= t /\ t < e1 /\ s2 <= t /\ t < e2

\* C1: in every reachable state no two CONFIRMED bookings of one room overlap
\* (a.start < b.end and a.end > b.start), whatever the interleaving of the
\* concurrent createBooking and cancelBooking calls.
C1_NoOverlappingConfirmed ==
    \A a \in DOMAIN bookings : \A b \in DOMAIN bookings \ {a} :
        (/\ bookings[a].roomId = bookings[b].roomId
         /\ bookings[a].status = "CONFIRMED"
         /\ bookings[b].status = "CONFIRMED")
        => ~(bookings[a].start < bookings[b].end /\ bookings[a].end > bookings[b].start)

\* Two overlapping requests both passed the conflict query; one has committed
\* and is still CONFIRMED, the other is about to insert.
C1_Witness ==
    \E p \in Callers : \E id \in DOMAIN bookings :
        /\ pc[p] = "insert"
        /\ id \notin tx[p].snap
        /\ ConflictMatch(bookings[id], loc[p].roomId,
                         loc[p].startTimeIso, loc[p].endTimeIso)

\* C2: when an attempt of createBooking that acquired a client has ended, the
\* client has been released exactly once; while it runs, not at all.
C2_ReleasedExactlyOnce ==
    \A p \in Callers :
        /\ (pc[p] \in {"done", "backoff"} /\ hist[p].acquired > 0)
              => conn[p].releases = 1
        /\ pc[p] \in {"conflictQ", "insert"} => conn[p].releases = 0

\* C3: a createBooking call all of whose TX_RETRIES attempts failed with a
\* serialization failure ends with OverloadError and has persisted no row.
C3_ExhaustionIsOverloadError ==
    \A p \in Callers :
        (pc[p] = "done" /\ hist[p].op = "create" /\ hist[p].transient = TX_RETRIES)
            => (result[p].kind = "OverloadError" /\ hist[p].inserted = 0)

\* C4: a createBooking call whose conflict query found an overlapping
\* CONFIRMED booking ends with ConflictError, after that one attempt's
\* rollback, with no row inserted.
C4_ConflictIsConflictError ==
    \A p \in Callers :
        (pc[p] = "done" /\ hist[p].conflictSeen)
            => (result[p].kind = "ConflictError" /\ hist[p].inserted = 0)

\* C5: the conflict query reports a conflict exactly when a CONFIRMED booking
\* of the same room has an instant in common with the new [start,end);
\* bookings that only touch at an endpoint do not conflict.
C5_OverlapCheckHalfOpen ==
    [][\A p \in Callers :
          (pc[p] = "conflictQ" /\ pc'[p] # "conflictQ" /\ hist'[p].transient = hist[p].transient)
          => LET clash == \E id \in DOMAIN bookings :
                              /\ bookings[id].status = "CONFIRMED"
                              /\ bookings[id].roomId = loc[p].roomId
                              /\ SharesInstant(bookings[id].start, bookings[id].end,
                                               loc[p].startTimeIso, loc[p].endTimeIso)
             IN  /\ clash <=> hist'[p].conflictSeen
                 /\ ~clash <=> pc'[p] = "insert"]_vars

\* Two CONFIRMED bookings of one room, the one ending where the other starts.
C5_Witness ==
    \E a \in DOMAIN bookings : \E b \in DOMAIN bookings :
        /\ bookings[a].roomId = bookings[b].roomId
        /\ bookings[a].status = "CONFIRMED"
        /\ bookings[b].status = "CONFIRMED"
        /\ bookings[a].end = bookings[b].start

\* C6: a createBooking call never opens more than TX_RETRIES transactions,
\* its attempt number never exceeds TX_RETRIES, and the call ends.
C6_AttemptsBounded ==
    \A p \in Callers :
        /\ [](hist[p].txOpened <= TX_RETRIES /\ loc[p].attempt <= TX_RETRIES)
        /\ (pc[p] = "connect") ~> (pc[p] = "done")

\* A call that used up all its attempts.
C6_Witness ==
    \E p \in Callers :
        pc[p] = "done" /\ hist[p].txOpened = TX_RETRIES /\ hist[p].transient = TX_RETRIES

InFlight == {"connect", "conflictQ", "insert", "backoff"}

\* C7: a createBooking call with a missing field, with start >= end, with a
\* duration of more than 720 minutes or for an unknown room never gets to the
\* retry loop, and the call that ends with ValidationError or NotFound has
\* acquired no client, opened no transaction and inserted no row.
C7_InvalidRequestsRejected ==
    \A p \in Callers :
        /\ pc[p] \in InFlight =>
              /\ ~MissingField(loc[p].roomId, loc[p].userName,
                               loc[p].startTimeIso, loc[p].endTimeIso)
              /\ loc[p].startTimeIso < loc[p].endTimeIso
              /\ loc[p].endTimeIso - loc[p].startTimeIso <= 720 * 60 * 1000
              /\ loc[p].roomId \in DOMAIN rooms
        /\ (pc[p] = "done" /\ hist[p].op = "create"
                /\ result[p].kind \in {"ValidationError", "NotFound"})
              => (hist[p].acquired = 0 /\ hist[p].txOpened = 0 /\ hist[p].inserted = 0)

\* C8: a createBooking call that returns a Booking has persisted exactly one
\* row - CONFIRMED, with the requested room, user and interval, the derived
\* duration and the price the server computed from the room's rate - and a
\* call that ends in an error has persisted none; no call persists two.
C8_OneRowPerSuccess ==
    /\ [](\A p \in Callers :
            /\ hist[p].inserted <= 1
            /\ (pc[p] = "done" /\ hist[p].op = "create") =>
                  IF result[p].kind = "Booking"
                  THEN /\ hist[p].inserted = 1
                       /\ result[p].status = "CONFIRMED"
                       /\ result[p].bookingId \in DOMAIN bookings
                  ELSE hist[p].inserted = 0)
    /\ [][\A p \in Callers :
            (pc[p] = "insert" /\ result'[p].kind = "Booking") =>
               LET id == result'[p].bookingId
                   rate == rooms[loc[p].roomId]
               IN  /\ DOMAIN bookings' = DOMAIN bookings \cup {id}
                   /\ id \notin DOMAIN bookings
                   /\ \A other \in DOMAIN bookings : bookings'[other] = bookings[other]
                   /\ bookings'[id].status = "CONFIRMED"
                   /\ bookings'[id].roomId = loc[p].roomId
                   /\ bookings'[id].userName = loc[p].userName
                   /\ bookings'[id].start = loc[p].startTimeIso
                   /\ bookings'[id].end = loc[p].endTimeIso
                   /\ bookings'[id].durationMinutes =
                         JsRoundDiv(loc[p].endTimeIso - loc[p].startTimeIso, 60000)
                   /\ bookings'[id].totalPrice =
                         estimatePriceForInterval(rate, loc[p].startTimeIso,
                                                  loc[p].endTimeIso).total
                   /\ result'[p].totalPrice = bookings'[id].totalPrice]_vars

\* A call that returned a Booking after two failed attempts, for a room
\* charged at 275 per hour.
C8_Witness ==
    \E p \in Callers :
        /\ pc[p] = "done" /\ result[p].kind = "Booking"
        /\ hist[p].transient = 2
        /\ result[p].roomId = "102"
        /\ result[p].totalPrice > 0

\* C9: a booking is created CONFIRMED, a CANCELLED booking stays CANCELLED,
\* and no booking is removed, in every step of every interleaving.
C9_StatusMonotonic ==
    [][/\ \A id \in DOMAIN bookings :
            /\ id \in DOMAIN bookings'
            /\ bookings[id].status = "CANCELLED" => bookings'[id].status = "CANCELLED"
       /\ \A id \in DOMAIN bookings' :
            /\ bookings'[id].status \in {"CONFIRMED", "CANCELLED"}
            /\ id \notin DOMAIN bookings => bookings'[id].status = "CONFIRMED"]_vars

\* A cancelled booking, a second cancelBooking about to write to it, and a
\* CONFIRMED booking created over the cancelled one's interval.
C9_Witness ==
    \E a \in DOMAIN bookings : \E b \in DOMAIN bookings : \E p \in Callers :
        /\ bookings[a].status = "CANCELLED"
        /\ pc[p] = "cancelUpdate" /\ loc[p].cancelId = a
        /\ bookings[b].status = "CONFIRMED"
        /\ bookings[b].roomId = bookings[a].roomId
        /\ SharesInstant(bookings[a].start, bookings[a].end,
                         bookings[b].start, bookings[b].end)

\* C10: cancelBooking on a booking it read as CONFIRMED fails with
\* CancellationWindowError, changing nothing, when start - now <= 2 hours, and
\* goes on to set the status CANCELLED when start - now > 2 hours.
C10_CancelCutoff ==
    [][\A p \in Callers :
          /\ (pc[p] = "cancelCheck" /\ pc'[p] # "cancelCheck"
                 /\ loc[p].rowStatus = "CONFIRMED") =>
                IF loc[p].rowStart - now <= 7200000
                THEN /\ result'[p].kind = "CancellationWindowError"
                     /\ pc'[p] = "done"
                     /\ bookings' = bookings
                ELSE pc'[p] = "cancelUpdate"
          /\ (pc[p] = "cancelUpdate" /\ pc'[p] # "cancelUpdate") =>
                /\ bookings'[loc[p].cancelId].status = "CANCELLED"
                /\ result'[p].kind = "Cancelled"]_vars

\* A booking starting at T0 was cancelled 2 h 1 s before its start, and a
\* cancelBooking exactly 2 h before T0 has just failed.
C10_Witness ==
    /\ now = T0 - 7200000
    /\ \E p \in Callers : pc[p] = "done" /\ result[p].kind = "CancellationWindowError"
    /\ \E id \in DOMAIN bookings :
          bookings[id].status = "CANCELLED" /\ bookings[id].start = T0

\* C11: cancelBooking on an id that is not in the table ends with NotFound;
\* on a booking it read as CANCELLED it returns that booking with status
\* CANCELLED and writes nothing, whatever the clock says, so a second
\* cancelBooking leaves the table as the first one left it.
C11_CancelIdempotent ==
    [][\A p \in Callers :
          /\ (pc[p] = "idle" /\ hist'[p].op = "cancel") =>
                /\ bookings' = bookings
                /\ pc'[p] = "cancelCheck" => loc'[p].cancelId \in DOMAIN bookings
                /\ pc'[p] = "done" => result'[p].kind = "NotFound"
          /\ (pc[p] = "cancelCheck" /\ pc'[p] # "cancelCheck"
                 /\ loc[p].rowStatus = "CANCELLED") =>
                /\ pc'[p] = "done"
                /\ result'[p].kind = "Cancelled"
                /\ result'[p].bookingId = loc[p].cancelId
                /\ result'[p].status = "CANCELLED"
                /\ hist'[p].updated = 0
                /\ bookings' = bookings]_vars

\* A cancelBooking that wrote nothing has returned a CANCELLED booking whose
\* start is less than 2 hours away or already past.
C11_Witness ==
    \E p \in Callers :
        /\ pc[p] = "done" /\ hist[p].op = "cancel" /\ hist[p].updated = 0
        /\ result[p].kind = "Cancelled"
        /\ result[p].bookingId \in DOMAIN bookings
        /\ bookings[result[p].bookingId].status = "CANCELLED"
        /\ bookings[result[p].bookingId].start - now <= 7200000

\* C12: a booking row that stays in the table keeps its totalPrice, roomId,
\* userName, startTime, endTime and durationMinutes in every step; a step
\* that changes a room's rate changes no booking row at all.
C12_CommittedFieldsFrozen ==
    [][/\ \A id \in DOMAIN bookings \cap DOMAIN bookings' :
            /\ bookings'[id].totalPrice = bookings[id].totalPrice
            /\ bookings'[id].roomId = bookings[id].roomId
            /\ bookings'[id].userName = bookings[id].userName
            /\ bookings'[id].start = bookings[id].start
            /\ bookings'[id].end = bookings[id].end
            /\ bookings'[id].durationMinutes = bookings[id].durationMinutes
       /\ (\E r \in DOMAIN rooms \cap DOMAIN rooms' : rooms'[r] # rooms[r])
             => bookings' = bookings]_vars

\* A cancelled booking of a room whose rate is no longer the one the
\* booking was priced at.
C12_Witness ==
    \E id \in DOMAIN bookings :
        /\ bookings[id].status = "CANCELLED"
        /\ bookings[id].roomId \in DOMAIN rooms
        /\ bookings[id].totalPrice #
              estimatePriceForInterval(rooms[bookings[id].roomId],
                                       bookings[id].start, bookings[id].end).total

\* C13: no step removes a booking row from the table, the deletion of the
\* room a booking references included.
C13_NeverRemoved ==
    [][\A id \in DOMAIN bookings : id \in DOMAIN bookings']_vars

\* What a caller of estimatePriceForInterval reads from the breakdown.
RECURSIVE EntryMinutes(_, _)
EntryMinutes(breakdown, label) ==
    IF breakdown = << >> THEN 0
    ELSE (IF Head(breakdown).label = label THEN Head(breakdown).minutes ELSE 0)
         + EntryMinutes(Tail(breakdown), label)

HasEntry(breakdown, label) == \E i \in DOMAIN breakdown : breakdown[i].label = label

\* Minute m (counted from Monday 2024-06-03T00:00Z) lies, in +5:30 local
\* time, on a Monday-Friday inside 10:00-13:00 or 16:00-19:00.
IsLocalPeakMinute(m) ==
    LET localMinute == m + 330
        weekday == (localMinute \div 1440) % 7
        timeOfDay == localMinute % 1440
    IN  /\ weekday <= 4
        /\ \/ (600 <= timeOfDay /\ timeOfDay < 780)
           \/ (960 <= timeOfDay /\ timeOfDay < 1140)

MinuteAligned(t) == t % 60000 = 0

\* C14: for a minute-aligned interval with start < end, the peak minutes
\* estimatePriceForInterval reports are the minutes of [start, end) that are
\* local weekday peak minutes, each counted once.
C14_PeakMinutesExact ==
    (quote.called /\ quote.start < quote.end
        /\ MinuteAligned(quote.start) /\ MinuteAligned(quote.end))
    => EntryMinutes(quote.out.breakdown, "Peak hours") =
          Cardinality({m \in (quote.start \div 60000) .. (quote.end \div 60000) - 1 :
                          IsLocalPeakMinute(m)})

\* An interval from a Friday inside a peak window to a Monday inside a peak
\* window: it crosses UTC midnights, local midnights and a weekend.
C14_Witness ==
    /\ quote.called
    /\ IsLocalPeakMinute(quote.start \div 60000)
    /\ quote.start \div 86400000 = 4
    /\ IsLocalPeakMinute(quote.end \div 60000)
    /\ quote.end \div 86400000 = 7
    /\ EntryMinutes(quote.out.breakdown, "Peak hours") > 0

\* C15: 04:30Z-07:30Z at rate 350 costs 1575.00 with 180 peak minutes on
\* Monday 2024-06-03 and 1050.00 with no peak minute on Saturday 2024-06-08;
\* every total is (peak/60)*rate*1.5 + (offpeak/60)*rate to the nearest
\* hundredth.
C15_PriceFormula ==
    (quote.called /\ quote.start < quote.end) =>
        LET peak == EntryMinutes(quote.out.breakdown, "Peak hours")
            off == EntryMinutes(quote.out.breakdown, "Off-peak hours")
            sixfold == peak * quote.rate * 15 + off * quote.rate * 10
        IN  /\ 6 * quote.out.total - sixfold <= 3
            /\ sixfold - 6 * quote.out.total <= 3
            /\ (quote.rate = 350 /\ quote.start = 16200000 /\ quote.end = 27000000)
                  => (peak = 180 /\ off = 0 /\ quote.out.total = 157500)
            /\ (quote.rate = 350 /\ quote.start = 5 * 86400000 + 16200000
                    /\ quote.end = 5 * 86400000 + 27000000)
                  => (peak = 0 /\ off = 180 /\ quote.out.total = 105000)

\* The Monday example has been priced.
C15_Witness ==
    /\ quote.called /\ quote.rate = 350
    /\ quote.start = 16200000 /\ quote.end = 27000000
    /\ quote.out.total = 157500

\* C16: for start < end, 0 <= peakMinutes <= totalMinutes, offpeakMinutes =
\* totalMinutes - peakMinutes is not negative, the breakdown has its Peak
\* entry exactly when peakMinutes > 0 and its Off-peak entry exactly when
\* offpeakMinutes > 0, and the entries' minutes add up to totalMinutes.
C16_BreakdownConsistent ==
    (quote.called /\ quote.start < quote.end) =>
        LET peakMinutes == PeakMinutes(quote.start, quote.end)
            totalMinutes == quote.out.totalMinutes
            offpeakMinutes == totalMinutes - peakMinutes
            breakdown == quote.out.breakdown
        IN  /\ 0 <= peakMinutes /\ peakMinutes <= totalMinutes
            /\ offpeakMinutes >= 0
            /\ HasEntry(breakdown, "Peak hours") <=> peakMinutes > 0
            /\ HasEntry(breakdown, "Off-peak hours") <=> offpeakMinutes > 0
            /\ Len(breakdown) <= 2
            /\ \A i \in DOMAIN breakdown :
                  breakdown[i].label \in {"Peak hours", "Off-peak hours"}
            /\ EntryMinutes(breakdown, "Peak hours") = peakMinutes
            /\ EntryMinutes(breakdown, "Off-peak hours") = offpeakMinutes
            /\ EntryMinutes(breakdown, "Peak hours")
                  + EntryMinutes(breakdown, "Off-peak hours") = totalMinutes

\* An interval that lies wholly inside a peak window and does not start on
\* a whole minute: the breakdown has the Peak entry alone.
C16_Witness ==
    /\ quote.called /\ quote.start < quote.end
    /\ ~MinuteAligned(quote.start)
    /\ HasEntry(quote.out.breakdown, "Peak hours")
    /\ ~HasEntry(quote.out.breakdown, "Off-peak hours")

\* C17: estimatePriceForInterval with start >= end returns total 0 and an
\* empty breakdown.
C17_EmptyInterval ==
    (quote.called /\ quote.start >= quote.end) =>
        (quote.out.total = 0 /\ quote.out.breakdown = << >>)

\* The call with an end a whole day and a peak window before the start.
C17_Witness ==
    /\ quote.called
    /\ quote.end + 86400000 < quote.start
    /\ IsLocalPeakMinute(quote.end \div 60000)
    /\ quote.out.total = 0

\* C18: every UPDATE of cancelBooking - also the second of two calls that
\* both read CONFIRMED - returns the booking as CANCELLED and changes the
\* status of that one row and nothing else; a status is always CONFIRMED or
\* CANCELLED.
C18_ConcurrentCancel ==
    /\ [](\A id \in DOMAIN bookings : bookings[id].status \in {"CONFIRMED", "CANCELLED"})
    /\ [][\A p \in Callers :
            (pc[p] = "cancelUpdate" /\ pc'[p] # "cancelUpdate") =>
                /\ pc'[p] = "done"
                /\ result'[p].kind = "Cancelled"
                /\ result'[p].bookingId = loc[p].cancelId
                /\ result'[p].status = "CANCELLED"
                /\ bookings' = [bookings EXCEPT ![loc[p].cancelId].status = "CANCELLED"]]_vars

\* Two cancelBooking calls on one booking have both run their UPDATE and
\* both returned.
C18_Witness ==
    \E p \in Callers : \E q \in Callers \ {p} :
        /\ pc[p] = "done" /\ pc[q] = "done"
        /\ hist[p].updated = 1 /\ hist[q].updated = 1
        /\ result[p].kind = "Cancelled" /\ result[q].kind = "Cancelled"
        /\ result[p].bookingId = result[q].bookingId
        /\ bookings[result[p].bookingId].status = "CANCELLED"

\* C19: the conflict query reports a conflict only when a CONFIRMED booking
\* of the room overlaps the request, and lets a request pass whose interval
\* overlaps CANCELLED bookings only; a call ends as a conflict only after
\* its query reported one.
C19_CancelledNeverConflicts ==
    /\ [](\A p \in Callers :
            (pc[p] = "done" /\ result[p].kind \in {"ConflictError", "ReleaseError"})
                => hist[p].conflictSeen)
    /\ [][\A p \in Callers :
            (pc[p] = "conflictQ" /\ pc'[p] # "conflictQ"
                /\ hist'[p].transient = hist[p].transient) =>
               LET overlapping == {id \in DOMAIN bookings :
                                      /\ bookings[id].roomId = loc[p].roomId
                                      /\ bookings[id].start < loc[p].endTimeIso
                                      /\ bookings[id].end > loc[p].startTimeIso}
               IN  /\ hist'[p].conflictSeen =>
                         \E id \in overlapping : bookings[id].status = "CONFIRMED"
                   /\ (\A id \in overlapping : bookings[id].status = "CANCELLED") =>
                         (pc'[p] = "insert" /\ ~hist'[p].conflictSeen)]_vars

\* A createBooking has returned a Booking whose interval overlaps a
\* CANCELLED booking of the same room.
C19_Witness ==
    \E p \in Callers : \E a \in DOMAIN bookings :
        /\ pc[p] = "done" /\ result[p].kind = "Booking"
        /\ ~hist[p].conflictSeen
        /\ a # result[p].bookingId
        /\ bookings[a].status = "CANCELLED"
        /\ bookings[a].roomId = result[p].roomId
        /\ bookings[a].start < result[p].endTime
        /\ bookings[a].end > result[p].startTime

\* C20: an INSERT adds one row under an id no row had and leaves every
\* other row as it was; an INSERT whose generated id is the id of a row in
\* the table fails and leaves the table as it was.
C20_IdsUnique ==
    [][\A p \in Callers :
          /\ (pc[p] = "insert" /\ result'[p].kind = "UniqueViolation") =>
                bookings' = bookings
          /\ hist'[p].inserted = hist[p].inserted + 1 =>
                /\ Cardinality(DOMAIN bookings') = Cardinality(DOMAIN bookings) + 1
                /\ \A id \in DOMAIN bookings :
                      id \in DOMAIN bookings' /\ bookings'[id] = bookings[id]]_vars

\* A createBooking whose generated id was the id of an existing row has
\* failed, and that row is in the table.
C20_Witness ==
    \E p \in Callers :
        /\ pc[p] = "done" /\ hist[p].op = "create"
        /\ result[p].kind = "UniqueViolation"
        /\ Cardinality(DOMAIN bookings) = 1

C22_RetryOnlyTransient ==
    /\ [][\A p \in Callers :
            /\ (pc[p] \in {"conflictQ", "insert"}
                    /\ hist'[p].transient = hist[p].transient + 1
                    /\ loc[p].attempt < 3) =>
                  /\ pc'[p] = "backoff"
                  /\ ~tx'[p].open
                  /\ ~conn'[p].held /\ conn'[p].releases = 1
                  /\ loc'[p].backoffMs = 50 * loc[p].attempt
                  /\ loc'[p].attempt = loc[p].attempt
                  /\ bookings' = bookings
            /\ (pc[p] # "backoff" /\ pc'[p] = "backoff") =>
                  (hist'[p].transient = hist[p].transient + 1 /\ loc[p].attempt < 3)
            /\ (pc[p] = "backoff" /\ pc'[p] # "backoff") =>
                  (pc'[p] = "connect" /\ loc'[p].attempt = loc[p].attempt + 1)
            /\ (pc[p] = "connect" /\ pc'[p] # "connect") =>
                  /\ pc'[p] = "conflictQ"
                  /\ tx'[p].open /\ tx'[p].snap = {}
                  /\ conn'[p].held /\ conn'[p].releases = 0
                  /\ hist'[p].txOpened = loc[p].attempt
            /\ (pc[p] = "insert" /\ pc'[p] = "done"
                    /\ result'[p].kind \in {"UniqueViolation", "ForeignKeyViolation"}) =>
                  /\ ~tx'[p].open
                  /\ ~conn'[p].held /\ conn'[p].releases = 1
                  /\ hist'[p].txOpened = loc[p].attempt
                  /\ bookings' = bookings]_vars
    /\ \A p \in Callers : (pc[p] = "backoff") ~> (pc[p] = "conflictQ")

\* A call whose first attempt failed with 40001 and whose second attempt
\* ended with a foreign-key violation, the room having been deleted.
C22_Witness ==
    \E p \in Callers :
        /\ pc[p] = "done" /\ result[p].kind = "ForeignKeyViolation"
        /\ hist[p].transient = 1 /\ hist[p].txOpened = 2

\* C23: a createBooking whose conflict query missed a booking committed
\* since does not insert but gets a serialization failure (unless its
\* generated id collides, a key violation), and the conflict query of its
\* next attempt, finding the committed booking, ends the call with
\* ConflictError carrying that booking's interval.
C23_LoserGetsConflict ==
    [][\A p \in Callers :
          /\ (pc[p] = "insert" /\ pc'[p] # "insert" /\ MustAbort(tx[p], loc[p])) =>
                /\ bookings' = bookings
                /\ \/ hist'[p].transient = hist[p].transient + 1
                   \/ result'[p].kind = "UniqueViolation"
          /\ (pc[p] = "conflictQ" /\ loc[p].attempt > 1 /\ hist'[p].conflictSeen) =>
                /\ pc'[p] = "done"
                /\ bookings' = bookings
                /\ result'[p].kind = "ConflictError"
                /\ \E id \in DOMAIN bookings :
                      /\ bookings[id].status = "CONFIRMED"
                      /\ bookings[id].roomId = loc[p].roomId
                      /\ bookings[id].start = result'[p].startTime
                      /\ bookings[id].end = result'[p].endTime]_vars

\* C24: a createBooking call holds a pooled client only between
\* pool.connect() and the end of that attempt - none before the first
\* attempt, during the backoff sleep or after the call - and acquires a
\* client only when it holds none, one per attempt.
C24_OneClientNoneAsleep ==
    /\ [](\A p \in Callers :
            /\ conn[p].held => pc[p] \in {"conflictQ", "insert"}
            /\ pc[p] = "backoff" => (~conn[p].held /\ conn[p].releases = 1)
            /\ pc[p] \in {"conflictQ", "insert"} => hist[p].acquired = loc[p].attempt
            /\ pc[p] \in {"connect", "backoff"} => hist[p].acquired = loc[p].attempt - 1
                                                   + (IF pc[p] = "backoff" THEN 1 ELSE 0))
    /\ [][\A p \in Callers :
            hist'[p].acquired = hist[p].acquired + 1 =>
                (pc[p] = "connect" /\ ~conn[p].held /\ conn'[p].held)]_vars

\* A call asleep in its second backoff, two clients acquired and released.
C24_Witness ==
    \E p \in Callers :
        /\ pc[p] = "backoff" /\ loc[p].backoffMs = 100
        /\ hist[p].acquired = 2
        /\ ~conn[p].held

\* C25: every row of the bookings table has start < end, lasts at most 720
\* minutes, and stores as durationMinutes its length in minutes.
C25_RowsWellFormed ==
    \A id \in DOMAIN bookings :
        /\ bookings[id].start < bookings[id].end
        /\ bookings[id].end - bookings[id].start <= 720 * 60000
        /\ bookings[id].durationMinutes * 60000 = bookings[id].end - bookings[id].start

====
